---- MODULE Spec2Model ----
(***************************************************************************)
(* The drawing canvas of src/src/components/Canvas.tsx: the shape tools,   *)
(* the drag state machine of the Canvas component, the redraw of the       *)
(* surface and the asynchronous image upload.                              *)
(*                                                                         *)
(* Numbers are integers, except the centre and radii of a circle, which    *)
(* the code divides by 2: those are exact rationals [n, d], normalised.    *)
(* An optional value (Point | null, E | undefined, the draft of redraw)    *)
(* is a sequence of length 0 or 1.                                         *)
(* The only array the handlers mutate is drawingRef.current.path           *)
(* (path.push, lines 199 and 214); a draft and a committed freehand        *)
(* element hold a copy of it ([...path], lines 200 and 215), and every     *)
(* pointer-down makes a new array, so sequences are values here.           *)
(* setElements/setTool are followed by React's re-render within the same   *)
(* action: the render refreshes elementsRef/toolRef (lines 162-165) and,   *)
(* when `elements` changed, runs the effect of line 180.                   *)
(***************************************************************************)
EXTENDS Integers, Sequences, FiniteSets

VARIABLES
    elements,     \* useState<CanvasElement[]>      (line 158)
    tool,         \* useState<ToolId>               (line 159)
    elementsRef,  \* elementsRef.current            (lines 162-163)
    toolRef,      \* toolRef.current                (lines 164-165)
    drawing,      \* drawingRef.current             (lines 166-170)
    surface,      \* the drawElement calls of the latest redraw, in order
    uploads,      \* one record per blob URL created by onImageUpload
    ev,           \* history: the latest event received
    nEvents,      \* history: the number of events received
    trace,        \* history: positions of the pointer-down and the moves of the current drag
    drawn,        \* history: the pointer-down and the moves of the current drag received with 'draw' selected
    allDraw,      \* history: the tool has been 'draw' ever since the pointer-down
    draft,        \* history: the draft of the latest pointer-move of the current drag
    lastClear,    \* history: the latest clear, with what it found
    js,           \* the component of part_001, given the same events: its state, refs and surface
    bArgs,        \* input of the makeElement harness (SpecBuild)
    bOut          \* results of the makeElement harness (SpecBuild)

vars == <<elements, tool, elementsRef, toolRef, drawing, surface, uploads,
          ev, nEvents, trace, drawn, allDraw, draft, lastClear, js, bArgs, bOut>>

\* ---------------------------------------------------------------- bounds

MaxEvents == 6
MaxCoord == 1
RectLeft == 1
RectTop == 1
MaxBuildCoord == 2

\* ------------------------------------------------------ program constants

MaxImageWidth == 400
ImageX == 50
ImageY == 50

\* ------------------------------------------------------------- the inputs

\* client coordinates of the pointer events: sampled on the canvas so that
\* both x and y vary, in opposite directions and by different amounts
ClientPoints ==
    {[clientX |-> RectLeft + i, clientY |-> RectTop + 2 * (MaxCoord - i)] : i \in 0..MaxCoord}

\* the image files a user can pick: intrinsic width and height
Files == {[width |-> 800, height |-> 600]}


\* --------------------------------------------------------------- helpers

Min(a, b) == IF a < b THEN a ELSE b

Abs(a) == IF a < 0 THEN -a ELSE a

\* n / 2, exactly
Half(n) == IF n % 2 = 0 THEN [n |-> n \div 2, d |-> 1] ELSE [n |-> n, d |-> 2]

\* Math.round of the double computed for a / b, a >= 0, b > 0: the nearest
\* integer; when a / b lies exactly halfway between two integers the double
\* may fall on either side of the half, and both neighbours are possible
MathRound(a, b) ==
    IF (2 * a) % (2 * b) = b
    THEN {a \div b, a \div b + 1}
    ELSE {(2 * a + b) \div (2 * b)}

Undefined == <<>>

\* path.unshift(pos): the new point goes first
push_Unshift(path, pos) == <<pos>> \o path

\* path.push(pos)
push(path, pos) == Append(path, pos)

\* an updater that writes the new element over the last one
appendEl_Overwrite(prev, el) ==
    IF prev = <<>> THEN <<el>> ELSE [prev EXCEPT ![Len(prev)] = el]

\* an updater that puts the new element first: [el, ...prev]
appendEl_Front(prev, el) == <<el>> \o prev

\* the updater prev => [...prev, el]
appendEl(prev, el) == Append(prev, el)

\* ------------------------------------------------------------- the tools

CanvasTool_makeElement(start, end) == Undefined

\* a rectangle anchored at the start point, whatever the drag direction
RectTool_makeElement_NoMin(start, end) ==
    <<[type |-> "rect",
       x |-> start.x,
       y |-> start.y,
       w |-> Abs(end.x - start.x),
       h |-> Abs(end.y - start.y)]>>

RectTool_makeElement(start, end) ==
    <<[type |-> "rect",
       x |-> Min(start.x, end.x),
       y |-> Min(start.y, end.y),
       w |-> Abs(end.x - start.x),
       h |-> Abs(end.y - start.y)]>>

\* radii that keep the sign of the drag
CircleTool_makeElement_NoAbs(start, end) ==
    <<[type |-> "circle",
       cx |-> Half(start.x + end.x),
       cy |-> Half(start.y + end.y),
       rx |-> Half(end.x - start.x),
       ry |-> Half(end.y - start.y)]>>

CircleTool_makeElement(start, end) ==
    <<[type |-> "circle",
       cx |-> Half(start.x + end.x),
       cy |-> Half(start.y + end.y),
       rx |-> Half(Abs(end.x - start.x)),
       ry |-> Half(Abs(end.y - start.y))]>>

LineTool_makeElement(start, end) ==
    <<[type |-> "line", x1 |-> start.x, y1 |-> start.y, x2 |-> end.x, y2 |-> end.y]>>

\* a toolbar that registers ImageTool as well
TOOLS_WithImage == <<"rect", "circle", "line", "draw", "image">>

\* the toolbar tools: ImageTool is not registered
TOOLS == <<"rect", "circle", "line", "draw">>

\* the keys of TOOL_MAP
TOOL_MAP_ids == {TOOLS[i] : i \in DOMAIN TOOLS}

\* a registry whose LineTool does not override makeElement
TOOL_MAP_makeElement_NoLine(t, start, end) ==
    CASE t = "rect"   -> RectTool_makeElement(start, end)
      [] t = "circle" -> CircleTool_makeElement(start, end)
      [] t = "line"   -> CanvasTool_makeElement(start, end)
      [] t = "draw"   -> CanvasTool_makeElement(start, end)

\* TOOL_MAP[t].makeElement(start, end): FreehandTool inherits the base method
TOOL_MAP_makeElement(t, start, end) ==
    CASE t = "rect"   -> RectTool_makeElement(start, end)
      [] t = "circle" -> CircleTool_makeElement(start, end)
      [] t = "line"   -> LineTool_makeElement(start, end)
      [] t = "draw"   -> CanvasTool_makeElement(start, end)

\* ------------------------------------------------------------ the redraw

\* clearRect, then drawElement for every element of the ref and for the draft
redraw(ref, d) == ref \o d

getPos(e) == [x |-> e.clientX - RectLeft, y |-> e.clientY - RectTop]

\* ------------------------------------------- the component of part_001

js_TOOLS == <<"rect", "circle", "line", "draw">>

\* a makeShapeElement whose rectangle is anchored at the start point
makeShapeElement_NoMin(t, start, end) ==
    IF t = "rect"
    THEN <<[type |-> "rect",
            x |-> start.x,
            y |-> start.y,
            w |-> Abs(end.x - start.x),
            h |-> Abs(end.y - start.y)]>>
    ELSE IF t = "circle"
    THEN <<[type |-> "circle",
            cx |-> Half(start.x + end.x),
            cy |-> Half(start.y + end.y),
            rx |-> Half(Abs(end.x - start.x)),
            ry |-> Half(Abs(end.y - start.y))]>>
    ELSE IF t = "line"
    THEN <<[type |-> "line", x1 |-> start.x, y1 |-> start.y, x2 |-> end.x, y2 |-> end.y]>>
    ELSE Undefined

\* makeShapeElement(tool, start, end): undefined for any other tool
makeShapeElement(t, start, end) ==
    IF t = "rect"
    THEN <<[type |-> "rect",
            x |-> Min(start.x, end.x),
            y |-> Min(start.y, end.y),
            w |-> Abs(end.x - start.x),
            h |-> Abs(end.y - start.y)]>>
    ELSE IF t = "circle"
    THEN <<[type |-> "circle",
            cx |-> Half(start.x + end.x),
            cy |-> Half(start.y + end.y),
            rx |-> Half(Abs(end.x - start.x)),
            ry |-> Half(Abs(end.y - start.y))]>>
    ELSE IF t = "line"
    THEN <<[type |-> "line", x1 |-> start.x, y1 |-> start.y, x2 |-> end.x, y2 |-> end.y]>>
    ELSE Undefined

\* clearRect, then drawElement for every element of the ref and, if truthy,
\* for the draft
js_redraw(ref, d) == ref \o d

js_getPos(e) == [x |-> e.clientX - RectLeft, y |-> e.clientY - RectTop]

\* the state after mount
js_Init ==
    [elements    |-> <<>>,
     tool        |-> "rect",
     elementsRef |-> <<>>,
     toolRef     |-> "rect",
     drawing     |-> [active |-> FALSE, start |-> <<>>, path |-> <<>>],
     surface     |-> js_redraw(<<>>, <<>>)]

\* setElements(next), the re-render and the effect of line 87
js_setElements(j, next) ==
    [j EXCEPT !.elements = next, !.elementsRef = next, !.surface = js_redraw(next, <<>>)]

js_onMouseDown(j, e) ==
    LET pos == js_getPos(e)
    IN [j EXCEPT !.drawing = [active |-> TRUE, start |-> <<pos>>, path |-> <<pos>>]]

\* with a null start, makeShapeElement throws on start.x before the redraw
js_onMouseMove(j, e) ==
    IF ~j.drawing.active
    THEN j
    ELSE LET pos   == js_getPos(e)
             start == j.drawing.start
             path  == j.drawing.path
             t     == j.toolRef
         IN IF t = "draw"
            THEN LET pushed == Append(path, pos)
                 IN [j EXCEPT !.drawing.path = pushed,
                              !.surface = js_redraw(j.elementsRef,
                                                    <<[type |-> "draw", path |-> pushed]>>)]
            ELSE IF start = <<>> /\ t \in {"rect", "circle", "line"}
            THEN j
            ELSE [j EXCEPT !.surface = js_redraw(j.elementsRef,
                                                 makeShapeElement(t, start[1], pos))]

\* with a null start, makeShapeElement throws on start.x after the drag was
\* made inactive
js_onMouseUp(j, e) ==
    IF ~j.drawing.active
    THEN j
    ELSE LET pos   == js_getPos(e)
             start == j.drawing.start
             path  == j.drawing.path
             t     == j.toolRef
             j1    == [j EXCEPT !.drawing.active = FALSE]
         IN IF t = "draw"
            THEN LET pushed == Append(path, pos)
                 IN js_setElements([j1 EXCEPT !.drawing.path = pushed],
                                   Append(j1.elements, [type |-> "draw", path |-> pushed]))
            ELSE IF start = <<>> /\ t \in {"rect", "circle", "line"}
            THEN j1
            ELSE LET el == makeShapeElement(t, start[1], pos)
                 IN IF el # Undefined
                    THEN js_setElements(j1, Append(j1.elements, el[1]))
                    ELSE j1

\* a toolbar button: setTool(t) and the re-render
js_setTool(j, t) == [j EXCEPT !.tool = t, !.toolRef = t]

\* the clear button: setElements([])
js_clear(j) == js_setElements(j, <<>>)

\* img.onload of upload u, h being the value of
\* Math.round((img.height / img.width) * w)
js_img_onload(j, u, img, h) ==
    LET w == Min(img.width, 400)
    IN js_setElements(j, Append(j.elements,
           [type |-> "image", img |-> u, x |-> 50, y |-> 50, w |-> w, h |-> h]))

\* ------------------------------------------------------------- the state

InitCanvas ==
    /\ elements = <<>>
    /\ tool = "rect"
    /\ elementsRef = <<>>
    /\ toolRef = "rect"
    /\ drawing = [active |-> FALSE, start |-> <<>>, path |-> <<>>]
    /\ surface = redraw(<<>>, <<>>)
    /\ uploads = <<>>
    /\ ev = [op |-> "mount", active |-> FALSE]
    /\ nEvents = 0
    /\ trace = <<>>
    /\ drawn = <<>>
    /\ allDraw = FALSE
    /\ draft = <<>>
    /\ lastClear = <<>>
    /\ js = js_Init

Init ==
    /\ InitCanvas
    /\ bArgs = <<>>
    /\ bOut = [fwd |-> <<>>, rev |-> <<>>]

\* an event is received
Event(op) ==
    /\ nEvents < MaxEvents
    /\ nEvents' = nEvents + 1
    /\ ev' = [op |-> op, active |-> drawing.active]
    /\ UNCHANGED <<bArgs, bOut>>

\* setElements(next), the re-render and the effect of line 180
setElements(next) ==
    /\ elements' = next
    /\ elementsRef' = next
    /\ surface' = redraw(next, <<>>)

\* a press that records the point but does not start the drag
onMouseDown_Inactive(e) ==
    LET pos == getPos(e) IN
    /\ drawing' = [active |-> FALSE, start |-> <<pos>>, path |-> <<pos>>]
    /\ trace' = <<pos>>
    /\ drawn' = <<pos>>
    /\ allDraw' = (toolRef = "draw")
    /\ draft' = <<>>
    /\ UNCHANGED <<elements, tool, elementsRef, toolRef, surface, uploads, lastClear>>

\* a press that starts the drag with an empty path
onMouseDown_EmptyPath(e) ==
    LET pos == getPos(e) IN
    /\ drawing' = [active |-> TRUE, start |-> <<pos>>, path |-> <<>>]
    /\ trace' = <<pos>>
    /\ drawn' = <<pos>>
    /\ allDraw' = (toolRef = "draw")
    /\ draft' = <<>>
    /\ UNCHANGED <<elements, tool, elementsRef, toolRef, surface, uploads, lastClear>>

\* a press that, during a drag, keeps the path gathered so far
onMouseDown_KeepPath(e) ==
    LET pos == getPos(e) IN
    /\ drawing' = [active |-> TRUE, start |-> <<pos>>,
                   path |-> IF drawing.active THEN push(drawing.path, pos) ELSE <<pos>>]
    /\ trace' = <<pos>>
    /\ drawn' = <<pos>>
    /\ allDraw' = (toolRef = "draw")
    /\ draft' = <<>>
    /\ UNCHANGED <<elements, tool, elementsRef, toolRef, surface, uploads, lastClear>>

onMouseDown(e) ==
    LET pos == getPos(e) IN
    /\ drawing' = [active |-> TRUE, start |-> <<pos>>, path |-> <<pos>>]
    /\ trace' = <<pos>>
    /\ drawn' = <<pos>>
    /\ allDraw' = (toolRef = "draw")
    /\ draft' = <<>>
    /\ UNCHANGED <<elements, tool, elementsRef, toolRef, surface, uploads, lastClear>>

MouseDown(e) == Event("down") /\ onMouseDown(e) /\ js' = js_onMouseDown(js, e)

\* a move handler that records the position whatever the tool
onMouseMove_AlwaysPush(e) ==
    IF ~drawing.active
    THEN UNCHANGED <<elements, tool, elementsRef, toolRef, drawing, surface, uploads,
                     trace, drawn, allDraw, draft, lastClear>>
    ELSE LET pos    == getPos(e)
             start  == drawing.start
             t      == toolRef
             pushed == push(drawing.path, pos)
             d      == IF t = "draw"
                       THEN <<[type |-> "draw", path |-> pushed]>>
                       ELSE TOOL_MAP_makeElement(t, start[1], pos)
         IN /\ trace' = Append(trace, pos)
            /\ drawn' = (IF t = "draw" THEN Append(drawn, pos) ELSE drawn)
            /\ drawing' = [drawing EXCEPT !.path = pushed]
            /\ surface' = redraw(elementsRef, d)
            /\ draft' = d
            /\ UNCHANGED <<elements, tool, elementsRef, toolRef, uploads, allDraw, lastClear>>

onMouseMove(e) ==
    IF ~drawing.active
    THEN UNCHANGED <<elements, tool, elementsRef, toolRef, drawing, surface, uploads,
                     trace, drawn, allDraw, draft, lastClear>>
    ELSE LET pos   == getPos(e)
             start == drawing.start
             path  == drawing.path
             t     == toolRef
         IN /\ trace' = Append(trace, pos)
            /\ drawn' = (IF t = "draw" THEN Append(drawn, pos) ELSE drawn)
            /\ IF t = "draw"
               THEN LET pushed == push(path, pos)
                        d      == <<[type |-> "draw", path |-> pushed]>>
                    IN /\ drawing' = [drawing EXCEPT !.path = pushed]
                       /\ surface' = redraw(elementsRef, d)
                       /\ draft' = d
               ELSE IF start # <<>>
               THEN LET d == TOOL_MAP_makeElement(t, start[1], pos)
                    IN /\ surface' = redraw(elementsRef, d)
                       /\ draft' = d
                       /\ UNCHANGED drawing
               ELSE UNCHANGED <<drawing, surface, draft>>
            /\ UNCHANGED <<elements, tool, elementsRef, toolRef, uploads, allDraw, lastClear>>

MouseMove(e) == Event("move") /\ onMouseMove(e) /\ js' = js_onMouseMove(js, e)

\* a release handler without the guard of line 207
onMouseUp_NoGuard(e) ==
    LET pos   == getPos(e)
        start == drawing.start
        t     == toolRef
    IN /\ draft' = <<>>
       /\ drawing' = [drawing EXCEPT !.active = FALSE]
       /\ IF t = "draw"
          THEN setElements(appendEl(elements, [type |-> "draw", path |-> push(drawing.path, pos)]))
          ELSE IF start # <<>>
          THEN setElements(appendEl(elements, TOOL_MAP_makeElement(t, start[1], pos)[1]))
          ELSE UNCHANGED <<elements, elementsRef, surface>>
       /\ UNCHANGED <<tool, toolRef, uploads, trace, drawn, allDraw, lastClear>>

onMouseUp(e) ==
    IF ~drawing.active
    THEN UNCHANGED <<elements, tool, elementsRef, toolRef, drawing, surface, uploads,
                     trace, drawn, allDraw, draft, lastClear>>
    ELSE LET pos   == getPos(e)
             start == drawing.start
             path  == drawing.path
             t     == toolRef
         IN /\ draft' = <<>>
            /\ IF t = "draw"
               THEN LET pushed == push(path, pos)
                    IN /\ drawing' = [drawing EXCEPT !.active = FALSE, !.path = pushed]
                       /\ setElements(appendEl(elements, [type |-> "draw", path |-> pushed]))
               ELSE /\ drawing' = [drawing EXCEPT !.active = FALSE]
                    /\ IF start # <<>>
                       THEN LET el == TOOL_MAP_makeElement(t, start[1], pos)
                            IN IF el # Undefined
                               THEN setElements(appendEl(elements, el[1]))
                               ELSE UNCHANGED <<elements, elementsRef, surface>>
                       ELSE UNCHANGED <<elements, elementsRef, surface>>
            /\ UNCHANGED <<tool, toolRef, uploads, trace, drawn, allDraw, lastClear>>

MouseUp(e) == Event("up") /\ onMouseUp(e) /\ js' = js_onMouseUp(js, e)

\* onMouseLeave={onMouseUp}
MouseLeave(e) == Event("leave") /\ onMouseUp(e) /\ js' = js_onMouseUp(js, e)

\* a toolbar button: setTool(t.id) and the re-render
SetTool(t) ==
    /\ Event("setTool")
    /\ js' = js_setTool(js, t)
    /\ tool' = t
    /\ toolRef' = t
    /\ allDraw' = (allDraw /\ t = "draw")
    /\ UNCHANGED <<elements, elementsRef, drawing, surface, uploads, trace, drawn, draft, lastClear>>

\* a clear that also abandons the drag in progress
Clear_ResetDrag ==
    /\ Event("clear")
    /\ js' = js_clear(js)
    /\ setElements(<<>>)
    /\ drawing' = [active |-> FALSE, start |-> <<>>, path |-> <<>>]
    /\ lastClear' = <<[n |-> Len(elements), active |-> drawing.active]>>
    /\ UNCHANGED <<tool, toolRef, uploads, trace, drawn, allDraw, draft>>

\* the clear button: setElements([])
Clear ==
    /\ Event("clear")
    /\ js' = js_clear(js)
    /\ setElements(<<>>)
    /\ lastClear' = <<[n |-> Len(elements), active |-> drawing.active]>>
    /\ UNCHANGED <<tool, toolRef, drawing, uploads, trace, drawn, allDraw, draft>>

\* files is e.target.files: empty, or the file picked
onImageUpload(files) ==
    IF files = <<>>
    THEN UNCHANGED <<elements, tool, elementsRef, toolRef, drawing, surface, uploads,
                     trace, drawn, allDraw, draft, lastClear>>
    ELSE /\ uploads' = Append(uploads, [img |-> files[1], status |-> "loading", revoked |-> 0])
         /\ UNCHANGED <<elements, tool, elementsRef, toolRef, drawing, surface,
                        trace, drawn, allDraw, draft, lastClear>>

\* the file input is shared: part_001 creates its image from the same file
Upload(files) == Event("upload") /\ onImageUpload(files) /\ js' = js

\* an onload that keeps the intrinsic width
img_onload_NoCap(u) ==
    LET img == uploads[u].img
        w   == img.width
    IN /\ \E h \in MathRound(img.height * w, img.width) :
            setElements(appendEl(elements,
              [type |-> "image", img |-> u, x |-> ImageX, y |-> ImageY, w |-> w, h |-> h]))
       /\ uploads' = [uploads EXCEPT ![u].status = "loaded", ![u].revoked = @ + 1]
       /\ UNCHANGED <<tool, toolRef, drawing, trace, drawn, allDraw, draft, lastClear>>

\* img.onload of upload u
img_onload(u) ==
    LET img == uploads[u].img
        w   == Min(img.width, MaxImageWidth)
    IN /\ \E h \in MathRound(img.height * w, img.width) :
            setElements(appendEl(elements,
              [type |-> "image", img |-> u, x |-> ImageX, y |-> ImageY, w |-> w, h |-> h]))
       /\ uploads' = [uploads EXCEPT ![u].status = "loaded", ![u].revoked = @ + 1]
       /\ UNCHANGED <<tool, toolRef, drawing, trace, drawn, allDraw, draft, lastClear>>

\* the decode of upload u succeeds. Both onload handlers evaluate
\* Math.round((img.height / img.width) * w) in the same engine: where the
\* operands are the same, so is the value
Load(u) ==
    /\ u \in DOMAIN uploads
    /\ uploads[u].status = "loading"
    /\ Event("load")
    /\ img_onload(u)
    /\ LET img == uploads[u].img
           hs  == MathRound(img.height * Min(img.width, 400), img.width)
           h0  == elements'[Len(elements')].h
       IN \E h \in hs :
             /\ h0 \in hs => h = h0
             /\ js' = js_img_onload(js, u, img, h)

\* a failed decode that runs the onload handler all the same
Fail_Commits(u) ==
    /\ u \in DOMAIN uploads
    /\ uploads[u].status = "loading"
    /\ Event("fail")
    /\ js' = js
    /\ setElements(appendEl(elements,
           [type |-> "image", img |-> u, x |-> ImageX, y |-> ImageY, w |-> 0, h |-> 0]))
    /\ uploads' = [uploads EXCEPT ![u].status = "failed"]
    /\ UNCHANGED <<tool, toolRef, drawing, trace, drawn, allDraw, draft, lastClear>>

\* the decode of upload u fails: the image has no error handler
Fail(u) ==
    /\ u \in DOMAIN uploads
    /\ uploads[u].status = "loading"
    /\ Event("fail")
    /\ js' = js
    /\ uploads' = [uploads EXCEPT ![u].status = "failed"]
    /\ UNCHANGED <<elements, tool, elementsRef, toolRef, drawing, surface,
                   trace, drawn, allDraw, draft, lastClear>>

Next ==
    \/ \E e \in ClientPoints : MouseDown(e)
    \/ \E e \in ClientPoints : MouseMove(e)
    \/ \E e \in ClientPoints : MouseUp(e)
    \/ \E e \in ClientPoints : MouseLeave(e)
    \/ \E i \in DOMAIN TOOLS : SetTool(TOOLS[i])
    \/ Clear
    \/ \E files \in {<<>>} \cup {<<f>> : f \in Files} : Upload(files)
    \/ \E u \in 1..MaxEvents : Load(u)
    \/ \E u \in 1..MaxEvents : Fail(u)

Spec == Init /\ [][Next]_vars

\* ------------------------------------------- the makeElement harness

\* the points makeElement is applied to
BuildPoints == {[x |-> i, y |-> j] : i \in 0..MaxBuildCoord, j \in 0..MaxBuildCoord}

InitBuild ==
    /\ InitCanvas
    /\ bArgs \in {<<[tool |-> TOOLS[i], p1 |-> p, p2 |-> q]>> :
                     i \in DOMAIN TOOLS, p \in BuildPoints, q \in BuildPoints}
    /\ bOut = [fwd |-> <<>>, rev |-> <<>>]

\* TOOL_MAP[tool].makeElement(p1, p2)
BuildFwd ==
    /\ bOut.fwd = <<>>
    /\ bOut' = [bOut EXCEPT !.fwd = <<TOOL_MAP_makeElement(bArgs[1].tool, bArgs[1].p1, bArgs[1].p2)>>]
    /\ UNCHANGED <<elements, tool, elementsRef, toolRef, drawing, surface, uploads,
                   ev, nEvents, trace, drawn, allDraw, draft, lastClear, js, bArgs>>

\* TOOL_MAP[tool].makeElement(p2, p1)
BuildRev ==
    /\ bOut.rev = <<>>
    /\ bOut' = [bOut EXCEPT !.rev = <<TOOL_MAP_makeElement(bArgs[1].tool, bArgs[1].p2, bArgs[1].p1)>>]
    /\ UNCHANGED <<elements, tool, elementsRef, toolRef, drawing, surface, uploads,
                   ev, nEvents, trace, drawn, allDraw, draft, lastClear, js, bArgs>>

NextBuild == BuildFwd \/ BuildRev

SpecBuild == InitBuild /\ [][NextBuild]_vars

\* ----------------------------------------------------------- drawElement

\* A CanvasRenderingContext2D: the current configuration (stroke style, line
\* width, fill style), the stack of saved configurations and the path and
\* paint calls received.
Ctx0 == [config |-> "default", stack |-> <<>>, ops |-> <<>>]

ctx_save(c) == [c EXCEPT !.stack = Append(@, c.config)]

ctx_restore(c) ==
    IF c.stack = <<>>
    THEN c
    ELSE [c EXCEPT !.config = c.stack[Len(c.stack)],
                   !.stack = SubSeq(c.stack, 1, Len(c.stack) - 1)]

\* strokeStyle = '#1a1a2e', lineWidth = 2, fillStyle = 'rgba(100, 149, 237, 0.25)'
ctx_style(c) == [c EXCEPT !.config = "element"]

ctx_call(c, names) == [c EXCEPT !.ops = @ \o names]

RectTool_draw(c, el) == ctx_call(c, <<"beginPath", "rect", "fill", "stroke">>)

CircleTool_draw(c, el) == ctx_call(c, <<"beginPath", "ellipse", "fill", "stroke">>)

LineTool_draw(c, el) == ctx_call(c, <<"beginPath", "moveTo", "lineTo", "stroke">>)

FreehandTool_draw(c, el) ==
    IF Len(el.path) < 2
    THEN c
    ELSE ctx_call(c, <<"beginPath", "moveTo">> \o [i \in 1..(Len(el.path) - 1) |-> "lineTo"]
                     \o <<"stroke">>)

\* TOOL_MAP[el.type].draw(ctx, el)
TOOL_MAP_draw(c, el) ==
    CASE el.type = "rect"   -> RectTool_draw(c, el)
      [] el.type = "circle" -> CircleTool_draw(c, el)
      [] el.type = "line"   -> LineTool_draw(c, el)
      [] el.type = "draw"   -> FreehandTool_draw(c, el)

\* drawElement of Canvas.tsx
drawElement(c, el) ==
    LET c1 == ctx_style(ctx_save(c))
        c2 == IF el.type = "image"
              THEN ctx_call(c1, <<"drawImage">>)
              ELSE TOOL_MAP_draw(c1, el)
    IN ctx_restore(c2)

\* drawElement of part_001: the freehand branch returns before the restore
\* when the path has fewer than 2 points
js_drawElement(c, el) ==
    LET c1 == ctx_style(ctx_save(c))
    IN CASE el.type = "rect"   -> ctx_restore(RectTool_draw(c1, el))
         [] el.type = "circle" -> ctx_restore(CircleTool_draw(c1, el))
         [] el.type = "line"   -> ctx_restore(LineTool_draw(c1, el))
         [] el.type = "draw"   -> IF Len(el.path) < 2
                                  THEN c1
                                  ELSE ctx_restore(FreehandTool_draw(c1, el))
         [] el.type = "image"  -> ctx_restore(ctx_call(c1, <<"drawImage">>))
         [] OTHER              -> ctx_restore(c1)

\* ---------------------------------------------- the drawElement harness

\* elements of every variant: the shapes of every pair of points, the
\* freehand paths of 0, 1 and 2 points, an image
DrawInputs ==
    {TOOL_MAP_makeElement(TOOLS[i], p, q)[1] :
         i \in 1..3, p \in BuildPoints, q \in BuildPoints}
    \cup {[type |-> "draw", path |-> <<>>]}
    \cup {[type |-> "draw", path |-> <<p>>] : p \in BuildPoints}
    \cup {[type |-> "draw", path |-> <<p, q>>] : p \in BuildPoints, q \in BuildPoints}
    \cup {[type |-> "image", img |-> 1, x |-> ImageX, y |-> ImageY, w |-> 400, h |-> 300]}

InitDraw ==
    /\ InitCanvas
    /\ bArgs \in {<<el>> : el \in DrawInputs}
    /\ bOut = [ts |-> <<>>, js |-> <<>>]

\* drawElement(ctx, el) of Canvas.tsx on a fresh context
DrawTs ==
    /\ bOut.ts = <<>>
    /\ bOut' = [bOut EXCEPT !.ts = <<drawElement(Ctx0, bArgs[1])>>]
    /\ UNCHANGED <<elements, tool, elementsRef, toolRef, drawing, surface, uploads,
                   ev, nEvents, trace, drawn, allDraw, draft, lastClear, js, bArgs>>

\* drawElement(ctx, el) of part_001 on a fresh context
DrawJs ==
    /\ bOut.js = <<>>
    /\ bOut' = [bOut EXCEPT !.js = <<js_drawElement(Ctx0, bArgs[1])>>]
    /\ UNCHANGED <<elements, tool, elementsRef, toolRef, drawing, surface, uploads,
                   ev, nEvents, trace, drawn, allDraw, draft, lastClear, js, bArgs>>

NextDraw == DrawTs \/ DrawJs

SpecDraw == InitDraw /\ [][NextDraw]_vars

\* ---------------------------------------------- the image-size harness

\* intrinsic sizes: wider than the cap, at the cap, narrower, taller than
\* wide, and sizes whose scaled height is not an integer (480 x 69 scales to
\* exactly 57.5)
ImageFiles ==
    {[width |-> 800,  height |-> 600], [width |-> 400, height |-> 300],
     [width |-> 300,  height |-> 200], [width |-> 401, height |-> 100],
     [width |-> 480,  height |-> 69],  [width |-> 1,   height |-> 1],
     [width |-> 1000, height |-> 333], [width |-> 100, height |-> 1000]}

InitImage ==
    /\ InitCanvas
    /\ bArgs \in {<<f>> : f \in ImageFiles}
    /\ bOut = [fwd |-> <<>>, rev |-> <<>>]

\* the file of this run is picked, any number of times, and decoded
NextImage ==
    \/ Upload(bArgs)
    \/ \E u \in 1..MaxEvents : Load(u)
    \/ \E u \in 1..MaxEvents : Fail(u)

SpecImage == InitImage /\ [][NextImage]_vars

\* ------------------------------------------------------------ the claims

\* a pointer-up or a pointer-leave at e
Release(e) == MouseUp(e) \/ MouseLeave(e)

Last(q) == q[Len(q)]

\* C1: with the freehand tool selected from the pointer-down on, the release
\* at q of a drag through p0 (down), p1..pn (moves) appends exactly one
\* freehand element, whose path is [p0, p1, ..., pn, q]
C1_FreehandPath ==
    [][\A e \in ClientPoints :
          (Release(e) /\ drawing.active /\ allDraw)
              => elements' = Append(elements,
                                    [type |-> "draw", path |-> Append(trace, getPos(e))])]_vars

\* a freehand drag through two moves at different positions has been committed
C1_Witness ==
    /\ ev.op \in {"up", "leave"}
    /\ ev.active
    /\ allDraw
    /\ Len(trace) = 3
    /\ trace[2] # trace[3]
    /\ elements # <<>>
    /\ Last(elements).type = "draw"
    /\ Len(Last(elements).path) = 4

\* C2: the Document starts empty; every release received during a drag and
\* every image load makes it exactly one element longer
C2_GrowsByOne ==
    /\ elements = <<>>
    /\ [][/\ \A e \in ClientPoints :
               (Release(e) /\ drawing.active) => Len(elements') = Len(elements) + 1
          /\ \A u \in 1..MaxEvents :
               Load(u) => Len(elements') = Len(elements) + 1]_vars

\* a drag and an image load have each committed an element, the drag last
C2_Witness ==
    /\ ev.op \in {"up", "leave"}
    /\ ev.active
    /\ Len(elements) = 2
    /\ elements[1].type = "image"
    /\ elements[2].type = "line"

\* C3: a release received while no drag is active changes neither the
\* Document nor the tool nor the drag state, and every release leaves the
\* drag inactive, so the releases after the first find no drag
C3_ReleaseWithoutDrag ==
    [][\A e \in ClientPoints :
          /\ (Release(e) /\ ~drawing.active) => UNCHANGED <<elements, tool, toolRef, drawing>>
          /\ Release(e) => ~drawing'.active]_vars

\* a second release, received after the drag was committed, was ignored
C3_Witness ==
    /\ ev.op \in {"up", "leave"}
    /\ ~ev.active
    /\ drawing.start # <<>>
    /\ Len(elements) = 1
    /\ uploads = <<>>

\* the latest event ended with a redraw: an effect of a Document change
\* (a commit, an image load, a clear) or the redraw of a pointer-move
RedrawDone ==
    \/ ev.op = "move" /\ ev.active
    \/ ev.op \in {"up", "leave"} /\ ev.active
    \/ ev.op \in {"clear", "load"}

\* the draft of the drag in progress, if any
DraftInProgress == IF drawing.active THEN draft ELSE <<>>

\* C4: after every redraw the surface shows the elements of the Document in
\* order, then the draft if a drag with a draft is in progress; a
\* pointer-move adds nothing to the Document
C4_SurfaceIsDocumentThenDraft ==
    /\ [](RedrawDone => surface = elements \o DraftInProgress)
    /\ [][\A e \in ClientPoints : MouseMove(e) => elements' = elements]_vars

\* C5: with decodes pending, every drag commit and every image load keeps
\* the elements committed before, in their order, and puts exactly the new
\* element after them
C5_CommitsAppend ==
    [][/\ \A e \in ClientPoints :
            (Release(e) /\ drawing.active)
                => /\ Len(elements') = Len(elements) + 1
                   /\ SubSeq(elements', 1, Len(elements)) = elements
                   /\ Last(elements').type = toolRef
       /\ \A u \in 1..MaxEvents :
            Load(u)
                => /\ Len(elements') = Len(elements) + 1
                   /\ SubSeq(elements', 1, Len(elements)) = elements
                   /\ Last(elements').type = "image"
                   /\ Last(elements').img = u]_vars

\* two decodes were in flight, the second completed first, and a drag
\* started, moved and committed after it while the first is still pending
C5_Witness ==
    /\ ev.op \in {"up", "leave"}
    /\ ev.active
    /\ Len(uploads) = 2
    /\ uploads[1].status = "loading"
    /\ uploads[2].status = "loaded"
    /\ Len(trace) >= 2
    /\ Len(elements) = 2
    /\ elements[1].type = "image"
    /\ elements[1].img = 2
    /\ elements[2].type # "image"

\* C6: a blob URL is not released while its decode is pending, and it has
\* been released exactly once when the decode has finished, whatever the
\* outcome
C6_UrlReleasedOnce ==
    \A u \in DOMAIN uploads :
        /\ uploads[u].status = "loading" => uploads[u].revoked = 0
        /\ uploads[u].status \in {"loaded", "failed"} => uploads[u].revoked = 1

\* C7: clear empties the Document and leaves the tool and the drag state as
\* they were; the release that follows a clear made during a drag commits
\* the element of that drag, and the Document holds that one element
C7_ClearFrame ==
    [][/\ Clear => (elements' = <<>> /\ UNCHANGED <<tool, toolRef, drawing>>)
       /\ \A e \in ClientPoints :
            (ev.op = "clear" /\ drawing.active /\ Release(e))
                => (Len(elements') = 1 /\ elements'[1].type = toolRef)]_vars

\* a clear emptied a non-empty Document during a drag, and the release
\* committed the one element of that drag
C7_Witness ==
    /\ ev.op \in {"up", "leave"}
    /\ ev.active
    /\ lastClear # <<>>
    /\ lastClear[1].active
    /\ lastClear[1].n >= 1
    /\ Len(elements) = 1
    /\ elements[1].type \in {"rect", "circle", "line", "draw"}

\* C8: clear empties the Document whatever it held; afterwards a pointer-down
\* is still accepted and starts a drag, and the release that follows a
\* pointer-down commits one element, so that the Document is non-empty again
C8_ClearThenDrag ==
    /\ [][Clear => elements' = <<>>]_vars
    /\ [][\A e \in ClientPoints : MouseDown(e) => drawing'.active]_vars
    /\ [][\A e \in ClientPoints :
            (ev.op = "down" /\ Release(e))
                => (Len(elements') = Len(elements) + 1 /\ elements' # <<>>)]_vars
    /\ [](nEvents < MaxEvents => \A e \in ClientPoints : ENABLED MouseDown(e))
    /\ []((nEvents < MaxEvents /\ drawing.active)
            => \A e \in ClientPoints : ENABLED (MouseUp(e) /\ elements' # <<>>))

\* a Document of one element or more was cleared outside a drag, and a drag
\* made afterwards has committed an element
C8_Witness ==
    /\ ev.op \in {"up", "leave"}
    /\ ev.active
    /\ lastClear # <<>>
    /\ ~lastClear[1].active
    /\ lastClear[1].n >= 1
    /\ Len(elements) = 1

\* the rational q is num / den
IsRatio(q, num, den) == q.d > 0 /\ q.n * den = num * q.d

\* el is the element the claim gives for tool T dragged from s to e
IsShapeOf(el, T, s, e) ==
    /\ el.type = T
    /\ CASE T = "rect" ->
              /\ DOMAIN el = {"type", "x", "y", "w", "h"}
              /\ el.x <= s.x /\ el.x <= e.x /\ el.x \in {s.x, e.x}
              /\ el.y <= s.y /\ el.y <= e.y /\ el.y \in {s.y, e.y}
              /\ el.w >= 0 /\ el.w \in {e.x - s.x, s.x - e.x}
              /\ el.h >= 0 /\ el.h \in {e.y - s.y, s.y - e.y}
         [] T = "circle" ->
              /\ DOMAIN el = {"type", "cx", "cy", "rx", "ry"}
              /\ IsRatio(el.cx, s.x + e.x, 2)
              /\ IsRatio(el.cy, s.y + e.y, 2)
              /\ el.rx.n >= 0
              /\ IsRatio(el.rx, e.x - s.x, 2) \/ IsRatio(el.rx, s.x - e.x, 2)
              /\ el.ry.n >= 0
              /\ IsRatio(el.ry, e.y - s.y, 2) \/ IsRatio(el.ry, s.y - e.y, 2)
         [] T = "line" ->
              /\ DOMAIN el = {"type", "x1", "y1", "x2", "y2"}
              /\ el.x1 = s.x /\ el.y1 = s.y
              /\ el.x2 = e.x /\ el.y2 = e.y

\* C9: the release at e of a drag started at s with the rect, circle or line
\* tool commits the element of that tool for s and e: the normalised
\* rectangle, the ellipse about the midpoint, the line from s to e; also
\* when s = e
C9_ShapeFromDrag ==
    [][\A e \in ClientPoints :
          (Release(e) /\ drawing.active /\ toolRef \in {"rect", "circle", "line"})
              => /\ Len(elements') = Len(elements) + 1
                 /\ IsShapeOf(Last(elements'), toolRef, trace[1], getPos(e))]_vars

\* a drag up and to the right has committed a rectangle with an area, and a
\* press and release at one point has committed a circle of radius zero
C9_Witness ==
    /\ ev.op \in {"up", "leave"}
    /\ ev.active
    /\ Len(elements) = 2
    /\ elements[1].type = "rect"
    /\ elements[1].w > 0
    /\ elements[1].h > 0
    /\ elements[2].type = "circle"
    /\ elements[2].rx.n = 0
    /\ elements[2].ry.n = 0

\* C10: makeElement gives the same rectangle and the same circle for (p1, p2)
\* and for (p2, p1), and for a line the same endpoints exchanged
C10_DirectionSymmetry ==
    (bOut.fwd # <<>> /\ bOut.rev # <<>>)
        => LET t == bArgs[1].tool
               f == bOut.fwd[1]
               r == bOut.rev[1]
           IN /\ t \in {"rect", "circle"} => (f # Undefined /\ f = r)
              /\ t = "line"
                    => /\ f # Undefined
                       /\ r = <<[type |-> "line", x1 |-> f[1].x2, y1 |-> f[1].y2,
                                 x2 |-> f[1].x1, y2 |-> f[1].y1]>>

\* makeElement has been applied both ways to a circle dragged down and to
\* the left
C10_Witness ==
    /\ bOut.fwd # <<>>
    /\ bOut.rev # <<>>
    /\ bArgs[1].tool = "circle"
    /\ bArgs[1].p1.x > bArgs[1].p2.x
    /\ bArgs[1].p1.y < bArgs[1].p2.y

\* C11: every image element of the Document is placed at (50, 50), as wide
\* as its image but no wider than 400, with the height that is nearest to
\* the one keeping the aspect ratio; an image no wider than 400 keeps its
\* size, and 800 x 600 becomes 400 x 300
C11_ImagePlacement ==
    \A i \in DOMAIN elements :
        elements[i].type = "image"
            => LET el == elements[i]
                   W  == uploads[el.img].img.width
                   H  == uploads[el.img].img.height
               IN /\ uploads[el.img].status = "loaded"
                  /\ el.x = 50 /\ el.y = 50
                  /\ el.w <= 400
                  /\ el.w = (IF W <= 400 THEN W ELSE 400)
                  /\ 2 * (el.h * W - H * el.w) <= W
                  /\ 2 * (H * el.w - el.h * W) <= W
                  /\ W <= 400 => (el.w = W /\ el.h = H)
                  /\ (W = 800 /\ H = 600) => (el.w = 400 /\ el.h = 300)

\* the load of an 800 x 600 image has committed its element
C11_Witness ==
    /\ ev.op = "load"
    /\ bArgs = <<[width |-> 800, height |-> 600]>>
    /\ elements # <<>>
    /\ Last(elements).type = "image"
    /\ Last(elements).w = 400
    /\ Last(elements).h = 300

\* C12: a file selection that carries no file, the selection of a file, and
\* the failure of its decode leave the Document, the surface, the tool and
\* the drag state as they were
C12_FailedUploadChangesNothing ==
    [][/\ \A files \in {<<>>} \cup {<<f>> : f \in Files} :
            Upload(files) => UNCHANGED <<elements, surface, tool, toolRef, drawing>>
       /\ \A u \in 1..MaxEvents :
            Fail(u) => UNCHANGED <<elements, surface, tool, toolRef, drawing>>]_vars

\* during a drag over a non-empty Document a decode has failed, and the
\* file selection received after it carried no file
C12_Witness ==
    /\ ev.op = "upload"
    /\ Len(uploads) = 1
    /\ uploads[1].status = "failed"
    /\ drawing.active
    /\ elements # <<>>

\* C13: in every step the Document stays as it is, or gets one element
\* appended after the unchanged old ones, or becomes empty; a pointer-down
\* and a pointer-move leave it as it is, so the path of a committed freehand
\* element is not touched by the points of a later drag
C13_ElementsImmutable ==
    [][/\ \/ elements' = elements
          \/ /\ Len(elements') = Len(elements) + 1
             /\ SubSeq(elements', 1, Len(elements)) = elements
          \/ elements' = <<>>
       /\ \A e \in ClientPoints :
            (MouseDown(e) \/ MouseMove(e)) => elements' = elements]_vars

\* a freehand element is committed, and a later freehand drag has pushed a
\* point to its own path
C13_Witness ==
    /\ ev.op = "move"
    /\ ev.active
    /\ allDraw
    /\ Len(drawing.path) >= 2
    /\ elements # <<>>
    /\ elements[1].type = "draw"
    /\ elements[1].path # drawing.path

\* C14: drawElement leaves the configuration and the save depth of the
\* context as it found them, for every element variant and on every path,
\* in both implementations
C14_SaveRestoreBalanced ==
    /\ bOut.ts # <<>>
          => (bOut.ts[1].stack = Ctx0.stack /\ bOut.ts[1].config = Ctx0.config)
    /\ bOut.js # <<>>
          => (bOut.js[1].stack = Ctx0.stack /\ bOut.js[1].config = Ctx0.config)

\* C15: setTool changes the active tool and leaves the Document and the drag
\* state alone; the element a release commits has the variant of the tool
\* selected at the release and starts at the position of the pointer-down: a
\* shape spans pointer-down to release, a freehand path holds the
\* pointer-down, the moves received while 'draw' was selected and the release
C15_ToolSwitch ==
    [][/\ \A i \in DOMAIN TOOLS :
            SetTool(TOOLS[i])
                => /\ tool' = TOOLS[i]
                   /\ toolRef' = TOOLS[i]
                   /\ UNCHANGED <<elements, elementsRef, drawing, surface, uploads>>
       /\ \A e \in ClientPoints :
            (Release(e) /\ drawing.active)
                => /\ Len(elements') = Len(elements) + 1
                   /\ Last(elements').type = toolRef
                   /\ toolRef # "draw"
                         => IsShapeOf(Last(elements'), toolRef, trace[1], getPos(e))
                   /\ toolRef = "draw"
                         => Last(elements').path
                               = Append(drawn, getPos(e))]_vars

\* a drag that began with a shape tool, moved, was switched to 'draw', moved
\* again to another position and was released has committed a freehand
\* element
C15_Witness ==
    /\ ev.op \in {"up", "leave"}
    /\ ev.active
    /\ Len(trace) = 3
    /\ drawn = <<trace[1], trace[3]>>
    /\ trace[2] # trace[3]
    /\ trace[1] # trace[2]
    /\ elements # <<>>
    /\ Last(elements).type = "draw"
    /\ Len(Last(elements).path) = 3

\* el, if a freehand element, has at least 2 points, so that drawing it
\* takes the stroking branch
Strokable(el) ==
    el.type = "draw"
        => /\ Len(el.path) >= 2
           /\ drawElement(Ctx0, el).ops # <<>>
           /\ js_drawElement(Ctx0, el).ops # <<>>

\* C16: every freehand element of the Document, and every freehand element
\* drawn on the surface, draft included, has a path of at least 2 points
C16_FreehandAtLeastTwoPoints ==
    /\ \A i \in DOMAIN elements : Strokable(elements[i])
    /\ \A i \in DOMAIN elementsRef : Strokable(elementsRef[i])
    /\ \A i \in DOMAIN surface : Strokable(surface[i])
    /\ \A i \in DOMAIN draft : Strokable(draft[i])

\* a freehand drag released without a move has been committed with the two
\* points of press and release, and drawn
C16_Witness ==
    /\ ev.op \in {"up", "leave"}
    /\ ev.active
    /\ allDraw
    /\ Len(trace) = 1
    /\ Len(elements) = 1
    /\ elements[1].type = "draw"
    /\ Len(elements[1].path) = 2
    /\ elements[1].path[1] = elements[1].path[2]
    /\ surface = elements

\* C17: a pointer-down received during a drag restarts it: the drag state
\* becomes active, with the new position as start and as the only point of
\* the path, and the Document keeps its elements
C17_RestartOnPointerDown ==
    [][\A e \in ClientPoints :
          (MouseDown(e) /\ drawing.active)
              => /\ drawing' = [active |-> TRUE,
                                start  |-> <<getPos(e)>>,
                                path   |-> <<getPos(e)>>]
                 /\ elements' = elements
                 /\ elementsRef' = elementsRef]_vars

\* a freehand drag that had gathered a move at another position, whose
\* draft is still on the surface, has been restarted by a second
\* pointer-down at a position other than its start
C17_Witness ==
    /\ ev.op = "down"
    /\ ev.active
    /\ drawing.active
    /\ toolRef = "draw"
    /\ elements = <<>>
    /\ Len(surface) = 1
    /\ surface[1].type = "draw"
    /\ Len(surface[1].path) = 2
    /\ surface[1].path[1] # surface[1].path[2]
    /\ drawing.path = <<surface[1].path[2]>>
    /\ drawing.start = drawing.path

\* C18: the active tool, as state and as ref, is always one of rect, circle,
\* line and draw, and so always has an entry in TOOL_MAP
C18_ToolIsRegistered ==
    /\ tool \in {"rect", "circle", "line", "draw"}
    /\ toolRef \in {"rect", "circle", "line", "draw"}
    /\ tool \in TOOL_MAP_ids
    /\ toolRef \in TOOL_MAP_ids

\* an image has been loaded and committed after a tool other than the
\* initial one was selected
C18_Witness ==
    /\ ev.op = "load"
    /\ elements # <<>>
    /\ Last(elements).type = "image"
    /\ tool = "draw"
    /\ toolRef = "draw"

\* the Document, the active tool, the refs, the drag state and the element
\* draws of the latest redraw of the component of Canvas.tsx
ts == [elements    |-> elements,
       tool        |-> tool,
       elementsRef |-> elementsRef,
       toolRef     |-> toolRef,
       drawing     |-> drawing,
       surface     |-> surface]

\* C19: given the same events, the component of part_001 and the component
\* of Canvas.tsx offer the same tools, hold the same Document, active tool
\* and drag state after every step, have issued the same element draws in
\* their latest redraw, and each draw makes the same calls on the context
C19_Equivalent ==
    /\ js_TOOLS = TOOLS
    /\ js = ts
    /\ \A i \in DOMAIN surface :
          js_drawElement(Ctx0, js.surface[i]) = drawElement(Ctx0, surface[i])

\* after an image load, a drag that began with 'rect', moved and was
\* switched to 'circle' has been released at another position: both
\* components hold the image and the circle and have drawn them
C19_Witness ==
    /\ ev.op \in {"up", "leave"}
    /\ ev.active
    /\ Len(trace) = 2
    /\ Len(elements) = 2
    /\ elements[1].type = "image"
    /\ elements[2].type = "circle"
    /\ elements[2].rx.n > 0
    /\ js.elements = elements
    /\ js.surface = elements
    /\ ~js.drawing.active

====
